---- MODULE Spec2Model ----
(***************************************************************************)
(* The opencopilot agent: the consul watch loop (main.go), the             *)
(* configuration handler and the reconciliation of the managed service     *)
(* containers against the desired set read from the KV tree (agent.go).    *)
(*                                                                         *)
(* The docker runtime is a list of containers in the order ContainerList   *)
(* reports them (newest first); the consul KV store is a set of keys (each *)
(* a path, split at "/") with a modification index.  A handler invocation  *)
(* advances one runtime call at a time, so that invocations made by the    *)
(* watch loop and by the agent's API can interleave.                       *)
(*                                                                         *)
(* Calls that fail: the long-poll, ImagePull / ContainerCreate /           *)
(* ContainerStart, ContainerStop, the Configure RPC.  The construction of  *)
(* the clients and ContainerList are taken to succeed.  A container that   *)
(* is stopped leaves the runtime (AutoRemove, agent.go 207).               *)
(***************************************************************************)
EXTENDS FiniteSets, Integers, Sequences, TLC

\* ---------------------------------------------------------------- bounds
\* What happens to the agent from outside is bounded: writes to the store,
\* containers run by somebody else, API calls, and failing runtime, store and
\* RPC calls together.
MaxEvents == 2

\* ------------------------------------------------------- program constants
InstanceID == "i-1"
OtherInstance == "i-2"
ManagedLabel == "com.opencopilot.managed"
ServiceLabel == "com.opencopilot.service-manager"
NamePrefix == "com.opencopilot.service-manager."

\* The names a service can have in the KV tree, and the ones the switch of
\* startService knows.
ServiceNames == {"LB", "DB"}
Registry == {"LB"}

Procs == {"watch", "api"}

VARIABLES
    store,            \* keys under instances/<InstanceID>/services/
    storeIndex,       \* consul's modification index of that subtree
    containers,       \* the runtime's containers, newest first
    events,           \* how many outside events and failures have happened
    alive,            \* the agent's process has not been ended by log.Fatal
    wpc,              \* watch loop: "list" (long-poll in flight), "handling", "stopped"
    prevIndex,        \* WaitIndex of the long-poll in flight
    lastIndex,        \* queryMeta.LastIndex of the last long-poll that returned
    firstCall,        \* the long-poll in flight is the one of the outermost frame
    watchResult,      \* what watchConfigTree returned to its caller
    lastPoll,         \* history: the last long-poll that returned
    runs,             \* history: handler invocations since that return
    HandlingServices, \* the process-wide flag
    hpc,              \* per invocation: position in ConfigHandler
    hkvs,             \* per invocation: the kvs argument
    missing,          \* per invocation: the services subtree was absent
    incoming,         \* per invocation: incomingServices
    local,            \* per invocation: localServices of ensureServices
    relisted,         \* per invocation: localServices of ConfigHandler
    idx,              \* per invocation: loop position
    calls,            \* history: the calls of the (last) invocation
    disturbed,        \* history: somebody else changed the runtime since its listing
    failedBefore,     \* history: the services whose start failed in the invocation before
    errorList,        \* per invocation: errorList of configureServices
    dials,            \* history: the ports that the (last) invocation has dialed
    status            \* what AgentGetStatus returned last

vars == <<store, storeIndex, containers, events, alive, wpc,
          prevIndex, lastIndex, firstCall, watchResult, lastPoll, runs,
          HandlingServices, hpc, hkvs, missing, incoming, local, relisted,
          idx, calls, disturbed, failedBefore, errorList, dials, status>>

envVars == <<store, storeIndex, alive>>
watchVars == <<wpc, prevIndex, lastIndex, firstCall, watchResult, lastPoll, runs>>
passVars == <<hkvs, missing, incoming, local, relisted, idx>>
pushVars == <<failedBefore, errorList, dials>>

\* ------------------------------------------------------------ KV store
ServiceKey(inst, s) == <<"instances", inst, "services", s, "config">>
OwnKeys == {ServiceKey(InstanceID, s) : s \in ServiceNames}
OtherKeys == {ServiceKey(OtherInstance, "DB")}
WatchPrefix == <<"instances", InstanceID, "services">>

HasPrefix(k, pre) ==
    /\ Len(k) >= Len(pre)
    /\ \A i \in 1..Len(pre) : k[i] = pre[i]

\* kv.List(prefix): the pairs of the whole store whose key starts with prefix
KVList(all, pre) == {k \in all : HasPrefix(k, pre)}

\* jsonparser.Get(jsonString, "instances", InstanceID, "services") == NotExist
ServicesNotExist(kvs) == ~ \E k \in kvs : HasPrefix(k, WatchPrefix)

\* the keys of m["instances"][InstanceID]["services"]
ServicesOf(kvs) ==
    {k[Len(WatchPrefix) + 1] :
        k \in {x \in kvs : HasPrefix(x, WatchPrefix) /\ Len(x) > Len(WatchPrefix)}}

\* a Go map is ranged over in any order
Orderings(S) ==
    {f \in [1..Cardinality(S) -> S] : \A i, j \in 1..Cardinality(S) : f[i] = f[j] => i = j}

\* ------------------------------------------------------------ runtime
ContainerName(s) == <<NamePrefix, s>>

HasLabel(c, key) == \E l \in c.labels : l[1] = key
LabelValue(c, key) == (CHOOSE l \in c.labels : l[1] = key)[2]

\* docker's name filter matches on all or part of the name
NameMatches(name, part) ==
    \E off \in 0..(Len(name) - Len(part)) :
        \A i \in 1..Len(part) : name[off + i] = part[i]

Listed(c, labelKeys, namePart) ==
    /\ c.running
    /\ \A key \in labelKeys : HasLabel(c, key)
    /\ NameMatches(c.name, namePart)

\* ContainerList with filters: the positions of the running containers that match
ListedAt(cs, labelKeys, namePart) ==
    {i \in 1..Len(cs) : Listed(cs[i], labelKeys, namePart)}

RECURSIVE Keep(_, _, _)
Keep(cs, i, drop) ==
    IF i > Len(cs) THEN <<>>
    ELSE (IF i \in drop THEN <<>> ELSE <<cs[i]>>) \o Keep(cs, i + 1, drop)

\* variant: a runtime that lets a name be taken twice
NameNeverInUse(cs, name) == FALSE

\* the runtime refuses to create a container under a name that is taken
NameInUse(cs, name) == \E i \in 1..Len(cs) : cs[i].name = name

\* agent.go 184: the image of the one service that the switch knows
Image(s) == "quay.io/opencopilot/haproxy-manager"

\* agent.go 281: the private port of a manager's control plane
ControlPort == 50052

\* what the runtime publishes for a running container of a manager image
\* under PublishAllPorts
Published == {[private |-> ControlPort, public |-> 32768]}

\* variant: a container created without the managed label
UnmanagedContainer(s, isRunning) ==
    [name |-> ContainerName(s),
     image |-> Image(s),
     labels |-> {<<ServiceLabel, s>>},
     ports |-> IF isRunning THEN Published ELSE {},
     running |-> isRunning]

\* the container that startService creates; its ID stands for the name, which
\* identifies a container of the runtime as well
ManagedContainer(s, isRunning) ==
    [name |-> ContainerName(s),
     image |-> Image(s),
     labels |-> {<<ManagedLabel, "">>, <<ServiceLabel, s>>},
     ports |-> IF isRunning THEN Published ELSE {},
     running |-> isRunning]

\* what somebody else may run on the same runtime: a managed container of a
\* service that this agent's switch does not know, with or without a
\* published control port, a container that has the service label and a
\* matching name but not the managed label, and a managed container of LB
\* under another name
ExternalKinds ==
    { [name |-> <<NamePrefix, "DB">>,
       image |-> "db-manager",
       labels |-> {<<ManagedLabel, "">>, <<ServiceLabel, "DB">>},
       ports |-> pp,
       running |-> TRUE] : pp \in {{}, Published} }
    \cup
    { [name |-> <<NamePrefix, "LB", "-old">>,
       image |-> "haproxy",
       labels |-> {<<ServiceLabel, "LB">>},
       ports |-> {},
       running |-> TRUE],
      [name |-> <<"lb-by-hand">>,
       image |-> Image("LB"),
       labels |-> {<<ManagedLabel, "">>, <<ServiceLabel, "LB">>},
       ports |-> Published,
       running |-> TRUE] }

\* ------------------------------------------------------ pure parts of agent.go
GetLocalFilter == {ManagedLabel}

getLocalServices(cs) ==
    LET withLabel == SelectSeq(cs,
            LAMBDA c : Listed(c, GetLocalFilter, <<>>) /\ HasLabel(c, ServiceLabel))
    IN  [i \in 1..Len(withLabel) |-> LabelValue(withLabel[i], ServiceLabel)]

\* variants of the inner loops: one that looks at the first entry only, one
\* that takes an empty list for "nothing to do"
ExistsInFirst(s, list) == list # <<>> /\ list[1] = s
ExistsInOrEmpty(s, list) == list = <<>> \/ \E i \in 1..Len(list) : list[i] = s

\* variant: inner loops that find nothing
ExistsInNever(s, list) == FALSE

\* the inner loops of ensureServices
ExistsIn(s, list) == \E i \in 1..Len(list) : list[i] = s

\* variant: startService without the default case of its switch
startServiceAnyName(s, cs, canFail) ==
    (IF canFail
     THEN {[cs |-> cs, err |-> TRUE, used |-> 1]}
     ELSE {})
    \cup
    (IF NameInUse(cs, ContainerName(s))
     THEN {[cs |-> cs, err |-> TRUE, used |-> 0]}
     ELSE {[cs |-> <<ManagedContainer(s, TRUE)>> \o cs, err |-> FALSE, used |-> 0]})

\* the outcomes of startService(s) on the runtime cs
startService(s, cs, canFail) ==
    IF s \notin Registry
    THEN {[cs |-> cs, err |-> TRUE, used |-> 0]}
    ELSE (IF canFail
          THEN {[cs |-> cs, err |-> TRUE, used |-> 1]}
          ELSE {})
         \cup
         (IF NameInUse(cs, ContainerName(s))
          THEN {[cs |-> cs, err |-> TRUE, used |-> 0]}
          ELSE {[cs |-> <<ManagedContainer(s, TRUE)>> \o cs, err |-> FALSE, used |-> 0]}
               \cup
               (IF canFail
                THEN {[cs |-> <<ManagedContainer(s, FALSE)>> \o cs, err |-> TRUE, used |-> 1]}
                ELSE {}))

\* variant: stopService lists by name alone
StopFilterNameOnly == {}

\* agent.go 235-238: the label filter of stopService
StopFilter == {ManagedLabel}

\* agent.go 235-241: the containers that stopService lists
StopTargets(s, cs) == ListedAt(cs, StopFilter, ContainerName(s))

\* the outcomes of stopService(s): ContainerStop fails for the containers at
\* `failing`, and its error is dropped
stopService(s, cs, budget) ==
    LET found == StopTargets(s, cs)
    IN  {[cs |-> Keep(cs, 1, found \ failing), ok |-> failing = {},
          used |-> Cardinality(failing)] :
            failing \in {F \in SUBSET found : Cardinality(F) <= budget}}

\* agent.go 260-266: the containers that configureService lists
ConfigureTargets(s, cs) == ListedAt(cs, {ManagedLabel}, ContainerName(s))

\* agent.go 279-284: the public port of the control plane, 0 without a mapping
gRPCPort(c) ==
    IF \E pp \in c.ports : pp.private = ControlPort
    THEN (CHOOSE pp \in c.ports : pp.private = ControlPort).public
    ELSE 0

\* agent.go 277-320, from the container at position i on.  The subtree of s
\* is read from the store: when it has no key, jsonparser.Get returns an error
\* and log.Fatal ends the process (300-303).  Otherwise localhost:<port> is
\* dialed and the Configure RPC made; on port 0 nothing listens and it fails,
\* on another port it may fail; its error ends the loop (316-318)
RECURSIVE ConfigureFrom(_, _, _, _, _, _)
ConfigureFrom(s, cs, all, canFail, i, dialed) ==
    IF i > Len(cs)
    THEN {[err |-> FALSE, used |-> 0, fatal |-> FALSE, dialed |-> dialed]}
    ELSE IF i \notin ConfigureTargets(s, cs)
    THEN ConfigureFrom(s, cs, all, canFail, i + 1, dialed)
    ELSE IF KVList(all, WatchPrefix \o <<s>>) = {}
    THEN {[err |-> TRUE, used |-> 0, fatal |-> TRUE, dialed |-> dialed]}
    ELSE LET port == gRPCPort(cs[i])
             now == Append(dialed, port)
         IN  IF port = 0
             THEN {[err |-> TRUE, used |-> 0, fatal |-> FALSE, dialed |-> now]}
             ELSE ConfigureFrom(s, cs, all, canFail, i + 1, now)
                  \cup (IF canFail
                        THEN {[err |-> TRUE, used |-> 1, fatal |-> FALSE, dialed |-> now]}
                        ELSE {})

\* the outcomes of configureService(s)
configureService(s, cs, all, canFail) == ConfigureFrom(s, cs, all, canFail, 1, <<>>)

\* agent.go 38: AgentGetStatus lists without a filter
StatusFilter == {}

\* agent.go 31-48
AgentGetStatus(cs) ==
    LET listed == SelectSeq(cs, LAMBDA c : Listed(c, StatusFilter, <<>>))
    IN  [InstanceId |-> InstanceID,
         Services |-> [i \in 1..Len(listed) |->
                        [Id |-> listed[i].name, Image |-> listed[i].image]]]

\* the services whose startService call failed, among the calls cl
FailedStarts(cl) ==
    {cl[i].svc : i \in {j \in 1..Len(cl) : cl[j].op = "start" /\ ~ cl[j].ok}}

Call(op, s, ok) == [op |-> op, svc |-> s, ok |-> ok]

\* ------------------------------------------------------------ positions
PcAfterStopLoop(miss) == IF miss THEN "ret" ELSE "relist"
PcAfterStartLoop(loc, miss) == IF loc = <<>> THEN PcAfterStopLoop(miss) ELSE "stop"
PcEnterStartLoop(inc, loc, miss) == IF inc = <<>> THEN PcAfterStartLoop(loc, miss) ELSE "start"

\* variant: a failed call ends the loop
LoopEndsOnError(err, last) == last \/ err

\* agent.go 140-143 and 161-164: the error of a call is logged and the loop
\* goes on; it ends after its last element
LoopEnds(err, last) == last

\* history: a change of the runtime made by `actor` is one that the passes of
\* the others did not make
Disturb(actor) == [q \in Procs |-> (q # actor) \/ disturbed[q]]

\* ------------------------------------------------------------ Init
Init ==
    /\ store \in SUBSET OwnKeys
    /\ storeIndex = 1
    /\ containers = <<>>
    /\ events = 0
    /\ alive = TRUE
    /\ wpc = "list"
    /\ prevIndex = 0
    /\ lastIndex = 0
    /\ firstCall = TRUE
    /\ watchResult = "running"
    /\ lastPoll = [wait |-> 0, got |-> 0, kvs |-> {}, any |-> FALSE]
    /\ runs = 0
    /\ HandlingServices = FALSE
    /\ hpc = [p \in Procs |-> "idle"]
    /\ hkvs = [p \in Procs |-> {}]
    /\ missing = [p \in Procs |-> FALSE]
    /\ incoming = [p \in Procs |-> <<>>]
    /\ local = [p \in Procs |-> <<>>]
    /\ relisted = [p \in Procs |-> <<>>]
    /\ idx = [p \in Procs |-> 1]
    /\ calls = [p \in Procs |-> <<>>]
    /\ disturbed = [p \in Procs |-> FALSE]
    /\ failedBefore = [p \in Procs |-> {}]
    /\ errorList = [p \in Procs |-> <<>>]
    /\ dials = [p \in Procs |-> <<>>]
    /\ status = [InstanceId |-> InstanceID, Services |-> <<>>]

\* ------------------------------------------------------------ environment
StoreWrite ==
    /\ events < MaxEvents
    /\ events' = events + 1
    /\ \E s \in SUBSET OwnKeys :
        /\ s # store
        /\ store' = s
    /\ storeIndex' = storeIndex + 1
    /\ UNCHANGED <<containers, alive, watchVars, HandlingServices, hpc, passVars,
                   calls, disturbed, pushVars, status>>

ExternalRun ==
    /\ events < MaxEvents
    /\ \E c \in ExternalKinds :
        /\ ~ NameInUse(containers, c.name)
        /\ containers' = <<c>> \o containers
    /\ events' = events + 1
    /\ disturbed' = Disturb("env")
    /\ UNCHANGED <<envVars, watchVars, HandlingServices, hpc, passVars, calls,
                   pushVars, status>>

\* ------------------------------------------------------------ ConfigHandler
\* agent.go 51-80 and 120: the flag, the decoding, the desired list, and the
\* listing of the local services that ensureServices begins with
Invoke(p, kvs) ==
    /\ HandlingServices' = TRUE
    /\ hkvs' = [hkvs EXCEPT ![p] = kvs]
    /\ missing' = [missing EXCEPT ![p] = ServicesNotExist(kvs)]
    /\ \E order \in Orderings(ServicesOf(kvs)) :
        /\ incoming' = [incoming EXCEPT ![p] = order]
        /\ hpc' = [hpc EXCEPT ![p] =
                PcEnterStartLoop(order, getLocalServices(containers), ServicesNotExist(kvs))]
    /\ local' = [local EXCEPT ![p] = getLocalServices(containers)]
    /\ relisted' = [relisted EXCEPT ![p] = <<>>]
    /\ idx' = [idx EXCEPT ![p] = 1]
    /\ calls' = [calls EXCEPT ![p] = <<>>]
    /\ disturbed' = [disturbed EXCEPT ![p] = FALSE]
    /\ failedBefore' = [failedBefore EXCEPT ![p] = FailedStarts(calls[p])]
    /\ errorList' = [errorList EXCEPT ![p] = <<>>]
    /\ dials' = [dials EXCEPT ![p] = <<>>]

\* agent.go 125-145: one round of the first loop; it breaks at a service
\* that runs already
StartStep(p) ==
    /\ alive
    /\ hpc[p] = "start"
    /\ LET s == incoming[p][idx[p]]
           last == idx[p] = Len(incoming[p])
       IN  IF ExistsIn(s, local[p])
           THEN /\ hpc' = [hpc EXCEPT ![p] = PcAfterStartLoop(local[p], missing[p])]
                /\ idx' = [idx EXCEPT ![p] = 1]
                /\ UNCHANGED <<containers, events, calls, disturbed>>
           ELSE \E out \in startService(s, containers, events < MaxEvents) :
                /\ containers' = out.cs
                /\ events' = events + out.used
                /\ calls' = [calls EXCEPT ![p] = Append(@, Call("start", s, ~ out.err))]
                /\ disturbed' = IF out.cs # containers THEN Disturb(p) ELSE disturbed
                /\ hpc' = [hpc EXCEPT ![p] =
                        IF LoopEnds(out.err, last)
                        THEN PcAfterStartLoop(local[p], missing[p]) ELSE "start"]
                /\ idx' = [idx EXCEPT ![p] =
                        IF LoopEnds(out.err, last) THEN 1 ELSE idx[p] + 1]
    /\ UNCHANGED <<envVars, watchVars, HandlingServices, hkvs, missing, incoming,
                   local, relisted, pushVars, status>>

\* agent.go 147-167: one round of the second loop; it breaks at a service
\* that is wanted
StopStep(p) ==
    /\ alive
    /\ hpc[p] = "stop"
    /\ LET s == local[p][idx[p]]
           last == idx[p] = Len(local[p])
       IN  IF ExistsIn(s, incoming[p])
           THEN /\ hpc' = [hpc EXCEPT ![p] = PcAfterStopLoop(missing[p])]
                /\ idx' = [idx EXCEPT ![p] = 1]
                /\ UNCHANGED <<containers, events, calls, disturbed>>
           ELSE \E out \in stopService(s, containers, MaxEvents - events) :
                /\ containers' = out.cs
                /\ events' = events + out.used
                /\ calls' = [calls EXCEPT ![p] = Append(@, Call("stop", s, out.ok))]
                /\ disturbed' = IF out.cs # containers THEN Disturb(p) ELSE disturbed
                /\ hpc' = [hpc EXCEPT ![p] =
                        IF LoopEnds(FALSE, last)
                        THEN PcAfterStopLoop(missing[p]) ELSE "stop"]
                /\ idx' = [idx EXCEPT ![p] =
                        IF LoopEnds(FALSE, last) THEN 1 ELSE idx[p] + 1]
    /\ UNCHANGED <<envVars, watchVars, HandlingServices, hkvs, missing, incoming,
                   local, relisted, pushVars, status>>

\* agent.go 81-87: the second listing; with nothing to configure the flag is reset
Relist(p) ==
    /\ alive
    /\ hpc[p] = "relist"
    /\ relisted' = [relisted EXCEPT ![p] = getLocalServices(containers)]
    /\ idx' = [idx EXCEPT ![p] = 1]
    /\ IF getLocalServices(containers) = <<>>
       THEN /\ hpc' = [hpc EXCEPT ![p] = "ret"]
            /\ HandlingServices' = FALSE
       ELSE /\ hpc' = [hpc EXCEPT ![p] = "configure"]
            /\ UNCHANGED HandlingServices
    /\ UNCHANGED <<envVars, containers, events, watchVars, hkvs, missing, incoming,
                   local, calls, disturbed, pushVars, status>>

\* agent.go 324-333 and 87: one round of configureServices
ConfigureStep(p) ==
    /\ alive
    /\ hpc[p] = "configure"
    /\ LET s == relisted[p][idx[p]]
           last == idx[p] = Len(relisted[p])
       IN  \E out \in configureService(s, containers, store \cup OtherKeys,
                                       events < MaxEvents) :
            /\ events' = events + out.used
            /\ calls' = [calls EXCEPT ![p] = Append(@, Call("configure", s, ~ out.err))]
            /\ dials' = [dials EXCEPT ![p] = @ \o out.dialed]
            /\ errorList' = [errorList EXCEPT ![p] =
                    IF out.err /\ ~ out.fatal THEN Append(@, s) ELSE @]
            /\ alive' = ~ out.fatal
            /\ IF out.fatal
               THEN UNCHANGED <<hpc, idx, HandlingServices>>
               ELSE /\ hpc' = [hpc EXCEPT ![p] = IF last THEN "ret" ELSE "configure"]
                    /\ idx' = [idx EXCEPT ![p] = IF last THEN 1 ELSE idx[p] + 1]
                    /\ HandlingServices' = IF last THEN FALSE ELSE HandlingServices
    /\ UNCHANGED <<store, storeIndex, containers, watchVars, hkvs, missing, incoming,
                   local, relisted, disturbed, failedBefore, status>>

\* ------------------------------------------------------------ watch loop
\* variant: the handler runs after every long-poll
ShouldInvokeAlways(prev, last) == TRUE

\* main.go 119
ShouldInvoke(prev, last) == prev # last

\* main.go 122
NextWaitIndex(prev, last) == last

\* variant: go handler(kvs)
WpcHandlerSpawned == "list"

\* main.go 120: the handler is called, not spawned
WpcWhileHandling == "handling"

\* main.go 112-122: the long-poll returns (a change, or its timeout)
WatchListOk ==
    /\ alive
    /\ wpc = "list"
    /\ lastIndex' = storeIndex
    /\ firstCall' = FALSE
    /\ lastPoll' = [wait |-> prevIndex, got |-> storeIndex,
                    kvs |-> KVList(store \cup OtherKeys, WatchPrefix), any |-> TRUE]
    /\ IF ShouldInvoke(prevIndex, storeIndex)
       THEN /\ Invoke("watch", KVList(store \cup OtherKeys, WatchPrefix))
            /\ wpc' = WpcWhileHandling
            /\ runs' = 1
            /\ UNCHANGED prevIndex
       ELSE /\ wpc' = "list"
            /\ runs' = 0
            /\ prevIndex' = NextWaitIndex(prevIndex, storeIndex)
            /\ UNCHANGED <<HandlingServices, hpc, passVars, calls, disturbed, pushVars>>
    /\ UNCHANGED <<envVars, containers, events, watchResult, status>>

\* main.go 115-117 and 122-123: only the outermost frame hands the error on
ResultOnError(first) == IF first THEN "err" ELSE "nil"

WatchListErr ==
    /\ alive
    /\ wpc = "list"
    /\ events < MaxEvents
    /\ events' = events + 1
    /\ wpc' = "stopped"
    /\ watchResult' = ResultOnError(firstCall)
    /\ UNCHANGED <<envVars, containers, prevIndex, lastIndex, firstCall, lastPoll,
                   runs, HandlingServices, hpc, passVars, calls, disturbed, pushVars,
                   status>>

\* ConfigHandler returns to its caller
HandlerReturn(p) ==
    /\ alive
    /\ hpc[p] = "ret"
    /\ hpc' = [hpc EXCEPT ![p] = "idle"]
    /\ hkvs' = [hkvs EXCEPT ![p] = {}]
    /\ missing' = [missing EXCEPT ![p] = FALSE]
    /\ incoming' = [incoming EXCEPT ![p] = <<>>]
    /\ local' = [local EXCEPT ![p] = <<>>]
    /\ relisted' = [relisted EXCEPT ![p] = <<>>]
    /\ idx' = [idx EXCEPT ![p] = 1]
    /\ IF p = "watch" /\ wpc = "handling"
       THEN /\ wpc' = "list"
            /\ prevIndex' = NextWaitIndex(prevIndex, lastIndex)
       ELSE UNCHANGED <<wpc, prevIndex>>
    /\ UNCHANGED <<envVars, containers, events, lastIndex, firstCall, watchResult,
                   lastPoll, runs, HandlingServices, calls, disturbed, pushVars,
                   status>>

\* the API's reconfiguration trigger hands the current listing to ConfigHandler
ApiConfigure ==
    /\ alive
    /\ hpc["api"] = "idle"
    /\ events < MaxEvents
    /\ events' = events + 1
    /\ Invoke("api", KVList(store \cup OtherKeys, WatchPrefix))
    /\ UNCHANGED <<envVars, containers, watchVars, status>>

\* a status query of the API: agent.go 31-48
GetStatus ==
    /\ alive
    /\ events < MaxEvents
    /\ events' = events + 1
    /\ status' = AgentGetStatus(containers)
    /\ UNCHANGED <<envVars, containers, watchVars, HandlingServices, hpc, passVars,
                   calls, disturbed, pushVars>>

Next ==
    \/ StoreWrite
    \/ ExternalRun
    \/ WatchListOk
    \/ WatchListErr
    \/ ApiConfigure
    \/ GetStatus
    \/ \E p \in Procs : StartStep(p)
    \/ \E p \in Procs : StopStep(p)
    \/ \E p \in Procs : Relist(p)
    \/ \E p \in Procs : ConfigureStep(p)
    \/ \E p \in Procs : HandlerReturn(p)

Spec == Init /\ [][Next]_vars

\* the steps of the goroutine that runs watchConfigTree (main.go 135)
WatchNext ==
    \/ WatchListOk
    \/ StartStep("watch")
    \/ StopStep("watch")
    \/ Relist("watch")
    \/ ConfigureStep("watch")
    \/ HandlerReturn("watch")

\* the Go scheduler keeps running the watch goroutine; nothing forces the
\* store, the API's callers or the rest of the runtime's users to act
FairSpec == Spec /\ WF_vars(WatchNext)

\* ------------------------------------------------------------ properties
Range(seq) == {seq[i] : i \in 1..Len(seq)}

Count(p, op, s) ==
    Cardinality({i \in 1..Len(calls[p]) : calls[p][i].op = op /\ calls[p][i].svc = s})

ActionCalls(p) == SelectSeq(calls[p], LAMBDA c : c.op \in {"start", "stop"})

NoActionFailed(p) == \A i \in 1..Len(calls[p]) :
    calls[p][i].op \in {"start", "stop"} => calls[p][i].ok

\* ensureServices has returned
EnsureDone(p) == hpc[p] \in {"relist", "configure", "ret"}

ActualSet == Range(getLocalServices(containers))

Desired == ServicesOf(KVList(store \cup OtherKeys, WatchPrefix))

Unmanaged(cs) == {i \in 1..Len(cs) : ~ HasLabel(cs[i], ManagedLabel)}

\* every container with the two labels has the name that startService gives
\* to the container of that service
Conforming(cs) ==
    \A i \in 1..Len(cs) :
        (HasLabel(cs[i], ManagedLabel) /\ HasLabel(cs[i], ServiceLabel)) =>
            cs[i].name = ContainerName(LabelValue(cs[i], ServiceLabel))

\* C1: a pass of ensureServices in which no action fails, during which
\* nobody else changes the runtime, and on a runtime whose managed containers
\* have the names of their services, calls startService once for each service
\* of D \ A, stopService once for each of A \ D and no other, and leaves the
\* actual set equal to D.
C1_OnePassConverges ==
    \A p \in Procs :
        (EnsureDone(p) /\ ~ disturbed[p] /\ NoActionFailed(p)
            /\ Conforming(containers)) =>
            LET D == Range(incoming[p])
                A == Range(local[p])
            IN  /\ \A s \in ServiceNames :
                    /\ Count(p, "start", s) = (IF s \in D \ A THEN 1 ELSE 0)
                    /\ Count(p, "stop", s) = (IF s \in A \ D THEN 1 ELSE 0)
                /\ ActualSet = D

\* C2: a pass whose desired list and actual list hold the same names makes no
\* startService and no stopService call, in whatever orders the two lists are.
C2_ConvergedPassIsNoOp ==
    \A p \in Procs :
        (hpc[p] # "idle" /\ Range(incoming[p]) = Range(local[p])) =>
            ActionCalls(p) = <<>>

C2_Witness ==
    \E p \in Procs :
        /\ EnsureDone(p)
        /\ Len(incoming[p]) = 2
        /\ Len(local[p]) = 2
        /\ Range(incoming[p]) = Range(local[p])
        /\ incoming[p] # local[p]

\* C3: no step removes a container that lacks the managed label, and a list
\* of local services never has more entries than there are running containers
\* with the managed label.
C3_UnmanagedIgnored ==
    [][ /\ Cardinality(Unmanaged(containers')) >= Cardinality(Unmanaged(containers))
        /\ \A p \in Procs :
            /\ local'[p] # local[p] =>
                Len(local'[p]) <= Cardinality(ListedAt(containers, {ManagedLabel}, <<>>))
            /\ relisted'[p] # relisted[p] =>
                Len(relisted'[p]) <= Cardinality(ListedAt(containers, {ManagedLabel}, <<>>))
      ]_vars

\* a pass has stopped LB while a container without the managed label, with
\* the service label LB and a name that the name filter of LB matches, ran
C3_Witness ==
    \E p \in Procs :
        /\ EnsureDone(p)
        /\ ~ disturbed[p]
        /\ \E i \in 1..Len(calls[p]) : calls[p][i] = Call("stop", "LB", TRUE)
        /\ local[p] = <<"LB">>
        /\ \E i \in Unmanaged(containers) :
            /\ containers[i].running
            /\ HasLabel(containers[i], ServiceLabel)
            /\ NameMatches(containers[i].name, ContainerName("LB"))

\* C4: an invocation that finds no services subtree has an empty desired
\* list, calls stopService for each entry of the list of local services, in
\* its order, and never startService.
C4_MissingSubtreeStopsAll ==
    \A p \in Procs :
        (hpc[p] = "ret" /\ missing[p]) =>
            /\ incoming[p] = <<>>
            /\ Len(calls[p]) = Len(local[p])
            /\ \A i \in 1..Len(calls[p]) :
                calls[p][i].op = "stop" /\ calls[p][i].svc = local[p][i]

C4_Witness ==
    \E p \in Procs :
        /\ hpc[p] = "ret"
        /\ missing[p]
        /\ Len(local[p]) = 2
        /\ ActualSet = {}

\* the watch loop has not been stopped by an error, its last long-poll has
\* returned the last version of the store, no start or stop call of the pass
\* made for it has failed, nobody else has changed the runtime since that
\* pass listed it (the API has made no pass at all), and the managed
\* containers have the names of their services
Quiesced ==
    /\ wpc # "stopped"
    /\ hpc["api"] = "idle"
    /\ calls["api"] = <<>>
    /\ lastPoll.any
    /\ lastPoll.got = storeIndex
    /\ ~ disturbed["watch"]
    /\ NoActionFailed("watch")
    /\ Conforming(containers)

Converged == Desired \subseteq Registry => ActualSet = Desired

\* C5: when from some point on the desired set does not change, the watch
\* loop has seen it, no start or stop call fails and nobody else changes the
\* runtime, then from some point on the actual set is the desired set, if
\* that is a set of supported services.
C5_EventuallyConverges == <>[]Quiesced => <>[]Converged

\* C6: when an invocation of ConfigHandler reaches its end, configureService
\* has been called for every managed service that runs after its
\* reconciliation.
C6_ConfiguresEveryRunning ==
    \A p \in Procs :
        (hpc[p] = "ret" /\ ~ disturbed[p]) =>
            \A s \in ActualSet : Count(p, "configure", s) >= 1

\* C7: the first long-poll waits on index 0 and every later one on the index
\* that the one before returned; the handler runs once, with the pairs of
\* that return, after a return whose index differs from the one waited on,
\* and not after another.
C7_WatchLoopStep ==
    /\ wpc = "list" => prevIndex = (IF lastPoll.any THEN lastPoll.got ELSE 0)
    /\ wpc = "handling" =>
        /\ hpc["watch"] # "idle"
        /\ hkvs["watch"] = lastPoll.kvs
    /\ lastPoll.any => (runs = IF lastPoll.got # lastPoll.wait THEN 1 ELSE 0)
    /\ ~ lastPoll.any => runs = 0

\* the handler runs for a change seen by a long-poll other than the first
C7_Witness ==
    /\ wpc = "handling"
    /\ lastPoll.wait >= 1
    /\ lastPoll.got > lastPoll.wait
    /\ lastPoll.kvs # {}

\* C8: no long-poll is in flight while an invocation made by the watch loop
\* runs.
C8_SingleFlight == wpc \in {"list", "stopped"} => hpc["watch"] = "idle"

\* the store has changed again while the handler of the watch loop runs
C8_Witness ==
    /\ wpc = "handling"
    /\ hpc["watch"] \in {"start", "stop", "configure"}
    /\ storeIndex > lastIndex

\* C9: once a long-poll has failed the loop has stopped, and watchConfigTree
\* has returned the error.
C9_ErrorReturned == wpc = "stopped" => watchResult = "err"

RECURSIVE StartPlan(_, _, _)
StartPlan(inc, loc, i) ==
    IF i > Len(inc) \/ (\E j \in 1..Len(loc) : loc[j] = inc[i]) THEN <<>>
    ELSE <<<<"start", inc[i]>>>> \o StartPlan(inc, loc, i + 1)

RECURSIVE StopPlan(_, _, _)
StopPlan(inc, loc, i) ==
    IF i > Len(loc) \/ (\E j \in 1..Len(inc) : inc[j] = loc[i]) THEN <<>>
    ELSE <<<<"stop", loc[i]>>>> \o StopPlan(inc, loc, i + 1)

\* the calls that a pass makes when none of them fails
Plan(inc, loc) == StartPlan(inc, loc, 1) \o StopPlan(inc, loc, 1)

Made(p) == [i \in 1..Len(ActionCalls(p)) |-> <<ActionCalls(p)[i].op, ActionCalls(p)[i].svc>>]

\* C10: the start and stop calls of a pass are those of a pass in which no
\* call fails, whichever of them fail.
C10_FailureDoesNotAbort ==
    \A p \in Procs : EnsureDone(p) => Made(p) = Plan(incoming[p], local[p])

\* a call has failed and the pass has made the next one
C10_Witness ==
    \E p \in Procs :
        /\ EnsureDone(p)
        /\ \E i \in 1..(Len(ActionCalls(p)) - 1) : ~ ActionCalls(p)[i].ok

\* a call has been appended to the calls of p by this step
CallMade(p) == Len(calls'[p]) = Len(calls[p]) + 1
NewCall(p) == calls'[p][Len(calls'[p])]

ConfigureCalls(p) == SelectSeq(calls[p], LAMBDA c : c.op = "configure")

\* C11: when startService(s) has failed in the pass before, and s is in the
\* desired list of this pass and not in its list of local services, then this
\* pass calls startService(s), whatever else is desired or runs.
C11_FailedStartRetried ==
    \A p \in Procs :
        EnsureDone(p) =>
            \A s \in (failedBefore[p] \cap Range(incoming[p])) \ Range(local[p]) :
                Count(p, "start", s) >= 1

\* C12: under every interleaving of the passes there is at most one running
\* managed container with the name of a service, and a startService(s) made
\* while a container with the name of s exists fails and leaves the runtime
\* as it is.
C12_OneContainerPerName ==
    /\ [](\A s \in ServiceNames :
            Cardinality(ListedAt(containers, {ManagedLabel}, <<>>)
                \cap {i \in 1..Len(containers) :
                        containers[i].name = ContainerName(s)}) <= 1)
    /\ [][ \A p \in Procs :
            (/\ CallMade(p)
             /\ NewCall(p).op = "start"
             /\ NameInUse(containers, ContainerName(NewCall(p).svc))) =>
                (~ NewCall(p).ok /\ containers' = containers)
         ]_vars

\* two passes have both called startService(LB), none of the calls has met
\* a failure of the runtime: the second has failed on the name
C12_Witness ==
    /\ events = 1
    /\ \E p, q \in Procs :
        /\ p # q
        /\ \E i \in 1..Len(calls[p]) : calls[p][i] = Call("start", "LB", TRUE)
        /\ \E i \in 1..Len(calls[q]) : calls[q][i] = Call("start", "LB", FALSE)
        /\ Cardinality(ListedAt(containers, {ManagedLabel}, ContainerName("LB"))) = 1

\* C13: when configureServices is over, by its return or by the end of the
\* process, it has called configureService once for each service of its
\* input, in order; when it has returned, its error list holds the services
\* whose call returned an error, and no other.
C13_ConfiguresAllCollectsErrors ==
    \A p \in Procs :
        /\ ((hpc[p] = "ret" /\ ~ missing[p]) \/ (hpc[p] = "configure" /\ ~ alive)) =>
            [i \in 1..Len(ConfigureCalls(p)) |-> ConfigureCalls(p)[i].svc] = relisted[p]
        /\ (hpc[p] = "ret" /\ ~ missing[p]) =>
            errorList[p] =
                 LET failed == SelectSeq(ConfigureCalls(p), LAMBDA c : ~ c.ok)
                 IN  [i \in 1..Len(failed) |-> failed[i].svc]

\* C14: configureService dials no container that publishes no mapping of the
\* control port, and returns no error for a service none of whose containers
\* publishes one.
C14_NoPortNoDelivery ==
    \A p \in Procs :
        /\ \A i \in 1..Len(dials[p]) : dials[p][i] # 0
        /\ ~ disturbed[p] =>
            \A s \in Range(errorList[p]) :
                \E i \in ConfigureTargets(s, containers) : gRPCPort(containers[i]) # 0

\* C15: a startService call for a name that the switch does not know returns
\* an error and leaves the runtime as it is.
C15_UnknownServiceNoEffect ==
    [][ \A p \in Procs :
            (CallMade(p) /\ NewCall(p).op = "start" /\ NewCall(p).svc \notin Registry) =>
                (~ NewCall(p).ok /\ containers' = containers)
      ]_vars

\* a pass has called startService(DB), and has gone on
C15_Witness ==
    \E p \in Procs :
        /\ EnsureDone(p)
        /\ \E i \in 1..Len(calls[p]) : calls[p][i] = Call("start", "DB", FALSE)
        /\ "DB" \notin Range(getLocalServices(containers))

\* C16: the flag is TRUE while an invocation of ConfigHandler runs, and FALSE
\* when every invocation has returned.
C16_FlagTracksInvocation ==
    /\ \A p \in Procs :
        hpc[p] \in {"start", "stop", "relist", "configure"} => HandlingServices
    /\ (\A p \in Procs : hpc[p] = "idle") => ~ HandlingServices

\* agent.go 96-114: the running containers that getLocalServices counts as
\* instances of s
LabelTargets(s, cs) ==
    {i \in 1..Len(cs) :
        /\ Listed(cs[i], GetLocalFilter, <<>>)
        /\ HasLabel(cs[i], ServiceLabel)
        /\ LabelValue(cs[i], ServiceLabel) = s}

\* C17: AgentGetStatus returns the instance ID and, with their ID and image,
\* the running containers that have the managed label, and no other.
C17_StatusListsManaged ==
    [][ GetStatus =>
            /\ status'.InstanceId = InstanceID
            /\ Range(status'.Services) =
                 {[Id |-> containers[i].name, Image |-> containers[i].image] :
                     i \in ListedAt(containers, {ManagedLabel}, <<>>)}
      ]_vars

\* C18: the containers that a stopService(s) call lists, and those that a
\* configureService(s) call lists, are the running containers with the
\* managed label and the service label s.
C18_LabelsAreTheCorrelation ==
    \A p \in Procs :
        /\ (hpc[p] = "stop" /\ ~ ExistsIn(local[p][idx[p]], incoming[p])) =>
            StopTargets(local[p][idx[p]], containers)
                = LabelTargets(local[p][idx[p]], containers)
        /\ hpc[p] = "configure" =>
            ConfigureTargets(relisted[p][idx[p]], containers)
                = LabelTargets(relisted[p][idx[p]], containers)

\* C19: a startService(s) call that succeeds puts a container with the
\* managed label, the service label s and the name of s in front of the
\* runtime's list, and s is then among the local services; a stopService(s)
\* call whose ContainerStop calls succeed removes that container, and the
\* local services are then those of the runtime without it.
C19_StartStopRoundTrip ==
    [][ \A p \in Procs :
            /\ (CallMade(p) /\ NewCall(p).op = "start" /\ NewCall(p).ok) =>
                LET s == NewCall(p).svc
                IN  /\ containers' = <<containers'[1]>> \o containers
                    /\ HasLabel(containers'[1], ManagedLabel)
                    /\ HasLabel(containers'[1], ServiceLabel)
                    /\ LabelValue(containers'[1], ServiceLabel) = s
                    /\ containers'[1].name = ContainerName(s)
                    /\ ExistsIn(s, getLocalServices(containers'))
                    /\ 1 \in StopTargets(s, containers')
            /\ (CallMade(p) /\ NewCall(p).op = "stop" /\ NewCall(p).ok) =>
                LET s == NewCall(p).svc
                    mine == {i \in 1..Len(containers) :
                                /\ containers[i].name = ContainerName(s)
                                /\ containers[i].running}
                IN  /\ \A i \in 1..Len(containers') :
                        containers'[i].name = ContainerName(s) => ~ containers'[i].running
                    /\ getLocalServices(containers')
                         = getLocalServices(Keep(containers, 1, mine))
      ]_vars

\* the watch loop has started LB in one pass and stopped it in a later one,
\* and nobody else has run a container
C19_Witness ==
    /\ events = 1
    /\ storeIndex = 2
    /\ local["watch"] = <<"LB">>
    /\ calls["watch"] = <<Call("stop", "LB", TRUE)>>
    /\ containers = <<>>

\* C20: a pass calls stopService for no service of its desired list,
\* startService for no service of the list of local services it began with,
\* and never both for one service.
C20_NoContradictoryCalls ==
    \A p \in Procs :
        hpc[p] # "idle" =>
            \A i \in 1..Len(calls[p]) :
                /\ calls[p][i].op = "start" => ~ ExistsIn(calls[p][i].svc, local[p])
                /\ calls[p][i].op = "stop" => ~ ExistsIn(calls[p][i].svc, incoming[p])
                /\ \A j \in 1..Len(calls[p]) :
                    (calls[p][i].op = "start" /\ calls[p][j].op = "stop") =>
                        calls[p][i].svc # calls[p][j].svc

\* a pass has started one service and stopped another
C20_Witness ==
    \E p \in Procs :
        /\ EnsureDone(p)
        /\ \E i \in 1..Len(calls[p]) : calls[p][i].op = "start"
        /\ \E i \in 1..Len(calls[p]) : calls[p][i].op = "stop"

====
